---------------------------- MODULE Spec2Model ----------------------------
(***************************************************************************)
(* Scavenger hunt: build-time preparation (src/build.js 29-84) and the     *)
(* runtime verification machine (src/build.js 113-446).                    *)
(*                                                                         *)
(* A JavaScript string is a sequence of one-character strings.  A byte     *)
(* string (Buffer, Uint8Array) is a sequence of numbers in 0..255.  A      *)
(* Base64 text is a sequence of sextets 0..63, with B64Pad for '=' and     *)
(* B64Bad for a character outside the Base64 alphabet.                     *)
(*                                                                         *)
(* The library primitives SHA-256, PBKDF2 and AES-256-GCM are replaced by  *)
(* small functions with the properties the program relies on: the digest   *)
(* is collision-free on the strings of the model, the derived key is       *)
(* determined by (password, salt, iterations, hash, length), and the tag   *)
(* changes whenever one byte of key material, IV or ciphertext changes.    *)
(* Presentation state (CSS classes, focus, the typing animation of the     *)
(* reveal panel) is left out.                                              *)
(***************************************************************************)
EXTENDS Integers, Sequences, FiniteSets, TLC

(* ------------------------------ bounds -------------------------------- *)

\* longest SECRET_CODE drawn by Init
MaxCodeLen == 2
\* longest SECRET_MESSAGE drawn by Init
MaxMsgLen == 2
\* longest clipboard text (before trimming its surrounding blanks)
MaxPasteLen == 2
\* verification attempts started in one behaviour
MaxAttempts == 2
\* longest SECRET_MESSAGE whose page Init also draws corrupted
MaxTamperedMsgLen == 1
\* runs of the build script in one behaviour
MaxRuns == 2

(* --------------------------- characters ------------------------------- *)

\* U+FEFF, the byte order mark
BOM == "FEFF"
\* U+FFFD, what a decoder emits for bytes that are not UTF-8
REPLACEMENT == "FFFD"
\* characters a code or a typed key can be
CodeAlphabet == {"A", "a"}
\* characters a message can be
MsgAlphabet == {"T", BOM}
\* the blank that String.prototype.trim removes
Blank == " "

\* sequences over S of length lo..hi
SeqsOf(S, lo, hi) == UNION {[1..n -> S] : n \in lo..hi}

\* r[1] + ... + r[n], weighted by position: sum of i * r[i]
WSum(r) ==
  LET sum[i \in 0..Len(r)] == IF i = 0 THEN 0 ELSE sum[i - 1] + i * r[i]
  IN sum[Len(r)]

\* the concatenation of the sequences ss[1], ss[2], ...
Flatten(ss) ==
  LET cat[i \in 0..Len(ss)] == IF i = 0 THEN <<>> ELSE cat[i - 1] \o ss[i]
  IN cat[Len(ss)]

\* UTF-8 bytes of one character
Utf8Char(c) ==
  CASE c = "A" -> <<65>>
    [] c = "a" -> <<97>>
    [] c = "T" -> <<84>>
    [] c = Blank -> <<32>>
    [] c = BOM -> <<239, 187, 191>>
    [] OTHER -> <<239, 191, 189>>

\* TextEncoder.encode(str), Buffer.from(str, 'utf8')
Utf8Encode(str) == Flatten([i \in 1..Len(str) |-> Utf8Char(str[i])])

\* UTF-8 decoding of a byte string, one character at a time
Utf8Decode(b) ==
  LET from[i \in 1..(Len(b) + 1)] ==
        IF i > Len(b) THEN <<>>
        ELSE IF b[i] = 65 THEN <<"A">> \o from[i + 1]
        ELSE IF b[i] = 97 THEN <<"a">> \o from[i + 1]
        ELSE IF b[i] = 84 THEN <<"T">> \o from[i + 1]
        ELSE IF b[i] = 32 THEN <<Blank>> \o from[i + 1]
        ELSE IF i + 2 <= Len(b) /\ b[i] = 239 /\ b[i + 1] = 187 /\ b[i + 2] = 191
          THEN <<BOM>> \o from[i + 3]
        ELSE <<REPLACEMENT>> \o from[i + 1]
  IN from[1]

\* new TextDecoder().decode(bytes): ignoreBOM is false, a leading BOM is dropped
TextDecoderDecode(b) ==
  LET s == Utf8Decode(b)
  IN IF s # <<>> /\ s[1] = BOM THEN Tail(s) ELSE s

(* ------------------------------ hex ----------------------------------- *)

HexDigits == <<"0","1","2","3","4","5","6","7","8","9","a","b","c","d","e","f">>

\* Buffer.toString('hex') / digest('hex'): two digits per byte
DigestHex(bytes) ==
  Flatten([i \in 1..Len(bytes) |->
            <<HexDigits[(bytes[i] \div 16) + 1], HexDigits[(bytes[i] % 16) + 1]>>])

\* Number.prototype.toString(16) of a byte: no leading zero
ToString16(b) ==
  IF b < 16 THEN <<HexDigits[b + 1]>>
  ELSE <<HexDigits[(b \div 16) + 1], HexDigits[(b % 16) + 1]>>

\* String.prototype.padStart(n, '0')
PadStart(s, n) == [i \in 1..(IF Len(s) < n THEN n - Len(s) ELSE 0) |-> "0"] \o s

(* ----------------------------- Base64 --------------------------------- *)

B64Pad == 64
B64Bad == 65

\* Buffer.toString('base64'): four sextets for every three bytes, the last group
\* padded
Base64Encode(b) ==
  LET byte(k) == IF k <= Len(b) THEN b[k] ELSE 0
  IN [j \in 1..(4 * ((Len(b) + 2) \div 3)) |->
        LET g == 3 * ((j - 1) \div 4)
            pos == (j - 1) % 4
        IN IF pos = 0 THEN byte(g + 1) \div 4
           ELSE IF pos = 1 THEN (byte(g + 1) % 4) * 16 + (byte(g + 2) \div 16)
           ELSE IF pos = 2
             THEN IF g + 2 > Len(b) THEN B64Pad
                  ELSE (byte(g + 2) % 16) * 4 + (byte(g + 3) \div 64)
           ELSE IF g + 3 > Len(b) THEN B64Pad ELSE byte(g + 3) % 64]

\* atob accepts the text: only alphabet characters, padding only at the end
AtobValid(t) ==
  /\ Len(t) % 4 = 0
  /\ \A i \in 1..Len(t) :
       \/ t[i] \in 0..63
       \/ t[i] = B64Pad /\ i >= Len(t) - 1 /\ (i = Len(t) \/ t[Len(t)] = B64Pad)

\* atob(t) for a valid text, as char codes: three for every four sextets, less
\* one for every padding character
Atob(t) ==
  LET pads == Cardinality({i \in 1..Len(t) : t[i] = B64Pad})
  IN [k \in 1..(3 * (Len(t) \div 4) - pads) |->
        LET g == 4 * ((k - 1) \div 3)
            pos == (k - 1) % 3
        IN IF pos = 0 THEN t[g + 1] * 4 + (t[g + 2] \div 16)
           ELSE IF pos = 1 THEN (t[g + 2] % 16) * 16 + (t[g + 3] \div 4)
           ELSE (t[g + 3] % 4) * 64 + t[g + 4]]

\* the value base64ToBytes throws instead of returning
DecodeError == <<-1>>

\* base64ToBytes(b64): atob, then one byte per char code
base64ToBytes(b64) == IF AtobValid(b64) THEN Atob(b64) ELSE DecodeError

(* ----------------------- library primitives --------------------------- *)

\* entropy streams the random source can deliver
MaxSeed == 0

\* crypto.randomBytes: n bytes of stream `seed`, starting after `offset` bytes
randomBytes(seed, offset, n) == [i \in 1..n |-> (seed * 37 + (offset + i) * 11) % 256]

\* bytes of the (shortened) digest
DigestLen == 4

\* SHA-256 of a byte string: base-257 value of the bytes, as DigestLen base-256
\* digits; distinct byte strings of up to three bytes have distinct digests
PolyValue(b) ==
  LET val[i \in 0..Len(b)] == IF i = 0 THEN 0 ELSE val[i - 1] * 257 + b[i] + 1
  IN val[Len(b)]

RECURSIVE Pow256(_)
Pow256(k) == IF k = 0 THEN 1 ELSE 256 * Pow256(k - 1)

SHA256(b) == [i \in 1..DigestLen |-> (PolyValue(b) \div Pow256(DigestLen - i)) % 256]

\* the empty key slot of an attempt that has derived nothing
NoKey == [password |-> <<>>, salt |-> <<>>, iterations |-> 0, hash |-> "", bits |-> 0]

\* PBKDF2: the key is determined by all five parameters
Pbkdf2(password, salt, iterations, hash, bits) ==
  [password |-> password, salt |-> salt, iterations |-> iterations,
   hash |-> IF hash \in {"sha256", "SHA-256"} THEN "SHA-256" ELSE hash,
   bits |-> bits]

\* bytes of the AES-GCM authentication tag
TagLen == 16

KeyStream(key, iv, i) ==
  (WSum(key.password \o key.salt \o iv) + key.iterations + key.bits + i) % 256

\* AES-256-GCM encryption without the tag
AesGcmEncrypt(key, iv, plain) ==
  [i \in 1..Len(plain) |-> (plain[i] + KeyStream(key, iv, i)) % 256]

\* the tag over (key, iv, ciphertext): changes with any single byte of them
AesGcmTag(key, iv, ct) ==
  LET t == (WSum(key.password \o key.salt \o iv \o ct)
            + key.iterations + key.bits) % 65521
  IN [j \in 1..TagLen |->
        IF j = 1 THEN t \div 256 ELSE IF j = 2 THEN t % 256 ELSE (t + j) % 256]

\* the value crypto.subtle.decrypt rejects with (OperationError)
OperationError == <<-2>>

\* crypto.subtle.decrypt({name: 'AES-GCM', iv}, key, data): data is ciphertext || tag
SubtleDecrypt(key, iv, data) ==
  IF Len(data) < TagLen THEN OperationError
  ELSE LET ct == SubSeq(data, 1, Len(data) - TagLen)
           tag == SubSeq(data, Len(data) - TagLen + 1, Len(data))
       IN IF key.hash # "SHA-256" \/ tag # AesGcmTag(key, iv, ct) THEN OperationError
          ELSE [i \in 1..Len(ct) |-> (ct[i] - KeyStream(key, iv, i) + 512) % 256]

(* --------------------------- build script ----------------------------- *)

\* PBKDF2 parameters of the build script
BuildIterations == 100000
BuildKeyBytes == 32
SaltBytes == 16
IvBytes == 12

\* process.env[key] of a variable that is not set
Undefined == <<"undefined">>

\* the check reduced to SECRET_CODE: a missing message is let through
BuildRejects_CodeOnly(code, message) == code \in {Undefined, <<>>}

\* !SECRET_CODE || !SECRET_MESSAGE: the build exits before producing anything
BuildRejects(code, message) == code \in {Undefined, <<>>} \/ message \in {Undefined, <<>>}

\* crypto.createHash('sha256').update(SECRET_CODE).digest('hex')
codeHash(code) == DigestHex(SHA256(Utf8Encode(code)))

\* the constants the build injects for (code, message) under entropy `seed`
Prepare(code, message, seed) ==
  LET salt == randomBytes(seed, 0, SaltBytes)
      iv == randomBytes(seed, SaltBytes, IvBytes)
      key == Pbkdf2(Utf8Encode(code), salt, BuildIterations, "sha256", BuildKeyBytes * 8)
      encrypted == AesGcmEncrypt(key, iv, Utf8Encode(message))
      authTag == AesGcmTag(key, iv, encrypted)
      encryptedWithTag == encrypted \o authTag
  IN [CODE_HASH |-> codeHash(code),
      ENCRYPTED_MESSAGE |-> Base64Encode(encryptedWithTag),
      CODE_LENGTH |-> Len(code),
      IV |-> Base64Encode(iv),
      SALT |-> Base64Encode(salt)]

\* a value the script has not computed yet
NotYet == <<>>

\* the script's variables before its first statement
BuildStart ==
  [run |-> 1, pc |-> "loadEnv", codeHash |-> NotYet, salt |-> NotYet, iv |-> NotYet,
   encryptedWithTag |-> NotYet]

\* the script's variables after its last statement, for (code, message) and the
\* random bytes of entropy stream `seed`
BuildEnd(code, message, seed) ==
  LET salt == randomBytes(seed, 0, SaltBytes)
      iv == randomBytes(seed, SaltBytes, IvBytes)
      key == Pbkdf2(Utf8Encode(code), salt, BuildIterations, "sha256", BuildKeyBytes * 8)
      encrypted == AesGcmEncrypt(key, iv, Utf8Encode(message))
  IN [run |-> 1, pc |-> "done", codeHash |-> codeHash(code), salt |-> salt, iv |-> iv,
      encryptedWithTag |-> encrypted \o AesGcmTag(key, iv, encrypted)]

\* dist/ : whether the directory exists, the constants in dist/index.html (a
\* sequence of none or one), whether script.js, style.css and assets/ are there
NoDist == [exists |-> FALSE, index |-> <<>>, copied |-> FALSE]
DistOf(art) == [exists |-> TRUE, index |-> <<art>>, copied |-> TRUE]

\* the random source that hands out the same stream again
EntropyAfter_Repeats(e) == e

\* the random source never hands out a stream twice: the streams are numbered,
\* and e streams have been consumed
EntropyAfter(e) == e + 1

(* ----------------- corruption of the distributed page ------------------ *)

\* one bit of byte p flipped
FlipBit(bytes, p) ==
  [bytes EXCEPT ![p] = IF bytes[p] % 2 = 0 THEN bytes[p] + 1 ELSE bytes[p] - 1]

\* what can have happened to dist/index.html between the build and the page load
Tampers == {"none", "ciphertext", "tag", "salt", "iv", "base64", "truncated"}

Tamper(art, how) ==
  LET enc == Atob(art.ENCRYPTED_MESSAGE)
  IN CASE how = "ciphertext" ->
            [art EXCEPT !.ENCRYPTED_MESSAGE = Base64Encode(FlipBit(enc, 1))]
       [] how = "tag" ->
            [art EXCEPT !.ENCRYPTED_MESSAGE = Base64Encode(FlipBit(enc, Len(enc)))]
       [] how = "salt" -> [art EXCEPT !.SALT = Base64Encode(FlipBit(Atob(art.SALT), 1))]
       [] how = "iv" -> [art EXCEPT !.IV = Base64Encode(FlipBit(Atob(art.IV), 1))]
       [] how = "base64" ->
            [art EXCEPT !.ENCRYPTED_MESSAGE = [art.ENCRYPTED_MESSAGE EXCEPT ![1] = B64Bad]]
       [] how = "truncated" ->
            [art EXCEPT !.ENCRYPTED_MESSAGE = Base64Encode(SubSeq(enc, 1, 3))]
       [] OTHER -> art

(* --------------------------- runtime state ---------------------------- *)

VARIABLES
  SECRET_CODE,        \* the build's process.env.SECRET_CODE
  SECRET_MESSAGE,     \* the build's process.env.SECRET_MESSAGE
  tamper,             \* what happened to the page after the build
  processEnv,         \* the environment the build script is launched with
  dotenv,             \* the values of the .env file, Undefined without a line
  build,              \* the build script: position and computed values
  dist,               \* the dist/ directory
  entropy,            \* entropy streams the random source has handed out
  runs,               \* what the runs of the build wrote to dist/index.html
  CODE_HASH,          \* injected constants, globals of the page
  CODE_LENGTH,
  SALT,
  IV,
  ENCRYPTED_MESSAGE,
  boxes,              \* boxes[i].value
  isVerifying,        \* the guard flag
  statusText,         \* statusEl.textContent
  revealPanel,        \* "hidden" or "visible"
  finalMessage,       \* the message handed to showSuccess, <<>> before
  calls,              \* invocations of verify() suspended at an await
  shakeTimers,        \* pending setTimeout callbacks of triggerShake
  nAttempts,          \* invocations of verify() that passed both early returns
  last                \* the invocation of verify() that returned last

embedded == <<CODE_HASH, CODE_LENGTH, SALT, IV, ENCRYPTED_MESSAGE>>
buildEnv == <<SECRET_CODE, SECRET_MESSAGE, tamper, processEnv, dotenv, build, dist,
              entropy, runs>>
dom == <<boxes, statusText, revealPanel, finalMessage>>
vars == <<buildEnv, embedded, dom, isVerifying, calls, shakeTimers, nAttempts, last>>

\* timer delays, in milliseconds
DramaticDelay == 800
ShakeDelay == 500

\* PBKDF2 parameters of the page
PageIterations == 100000
PageKeyBits == 256

Codes == SeqsOf(CodeAlphabet, 1, MaxCodeLen)
Messages == SeqsOf(MsgAlphabet, 1, MaxMsgLen)

\* createBoxes(): CODE_LENGTH empty inputs
createBoxes(n) == [i \in 1..n |-> ""]

Init ==
  \E code \in Codes, message \in Messages, seed \in 0..MaxSeed, how \in Tampers :
    LET art == Tamper(Prepare(code, message, seed), how)
    IN /\ ~BuildRejects(code, message)
       /\ how = "none" \/ Len(message) <= MaxTamperedMsgLen
       /\ SECRET_CODE = code
       /\ SECRET_MESSAGE = message
       /\ tamper = how
       /\ processEnv = [SECRET_CODE |-> code, SECRET_MESSAGE |-> message]
       /\ dotenv = [SECRET_CODE |-> Undefined, SECRET_MESSAGE |-> Undefined]
       /\ build = BuildEnd(code, message, seed)
       /\ dist = DistOf(Prepare(code, message, seed))
       /\ entropy = EntropyAfter(seed)
       /\ runs = <<Prepare(code, message, seed)>>
       /\ CODE_HASH = art.CODE_HASH
       /\ CODE_LENGTH = art.CODE_LENGTH
       /\ SALT = art.SALT
       /\ IV = art.IV
       /\ ENCRYPTED_MESSAGE = art.ENCRYPTED_MESSAGE
       /\ boxes = createBoxes(art.CODE_LENGTH)
       /\ isVerifying = FALSE
       /\ statusText = ""
       /\ revealPanel = "hidden"
       /\ finalMessage = <<>>
       /\ calls = {}
       /\ shakeTimers = <<>>
       /\ nAttempts = 0
       /\ last = [id |-> 0, code |-> <<>>, result |-> "none", trace |-> <<>>]

(* ------------------------- runtime helpers ---------------------------- *)

\* getCode(): boxes.map(b => b.value).join('')
getCode(bx) == Flatten([i \in 1..Len(bx) |-> IF bx[i] = "" THEN <<>> ELSE <<bx[i]>>])

\* String.prototype.toUpperCase
ToUpperCase(str) == [i \in 1..Len(str) |-> IF str[i] = "a" THEN "A" ELSE str[i]]

\* sha256 of the upper-cased candidate: a case-insensitive check
sha256_CaseFolded(str) ==
  LET hashArray == SHA256(Utf8Encode(ToUpperCase(str)))
  IN Flatten([i \in 1..Len(hashArray) |-> PadStart(ToString16(hashArray[i]), 2)])

\* sha256(str): hex of the digest, byte by byte
sha256(str) ==
  LET hashArray == SHA256(Utf8Encode(str))
  IN Flatten([i \in 1..Len(hashArray) |-> PadStart(ToString16(hashArray[i]), 2)])

\* a key that does not depend on the candidate
deriveKey_FixedPassword(password, salt) ==
  Pbkdf2(<<>>, salt, PageIterations, "SHA-256", PageKeyBits)

\* deriveKey(password, salt)
deriveKey(password, salt) ==
  Pbkdf2(Utf8Encode(password), salt, PageIterations, "SHA-256", PageKeyBits)

\* the comparison left out: every candidate goes on to decryption
HashMatches_Always(hash) == TRUE

\* hash === CODE_HASH
HashMatches(hash) == hash = CODE_HASH

\* the three base64ToBytes calls of decryptMessage all return
ConstantsDecode ==
  /\ base64ToBytes(SALT) # DecodeError
  /\ base64ToBytes(IV) # DecodeError
  /\ base64ToBytes(ENCRYPTED_MESSAGE) # DecodeError

\* what decryptMessage returns from its catch block
Null == <<"null">>

\* if (message !== '') in place of if (message): null passes
Truthy_NotEmpty(message) == message # <<>>

\* if (message): null and the empty string are falsy
Truthy(message) == message # Null /\ message # <<>>

\* String.prototype.trim on a clipboard text
RECURSIVE TrimStart(_)
TrimStart(s) == IF s # <<>> /\ s[1] = Blank THEN TrimStart(Tail(s)) ELSE s

RECURSIVE TrimEnd(_)
TrimEnd(s) ==
  IF s # <<>> /\ s[Len(s)] = Blank THEN TrimEnd(SubSeq(s, 1, Len(s) - 1)) ELSE s

Trim(s) == TrimEnd(TrimStart(s))

\* clipboard texts: a text over the code alphabet, bare or with blanks around it
Clipboard ==
  LET cores == SeqsOf(CodeAlphabet, 0, MaxPasteLen)
  IN cores \cup {<<Blank>> \o core \o <<Blank>> : core \in cores}

\* code.length >= 1 in place of code.length === CODE_LENGTH
FullLength_NonEmpty(code) == Len(code) >= 1

\* code.length === CODE_LENGTH, in checkAutoVerify and again in verify
FullLength(code) == Len(code) = CODE_LENGTH

\* verify() without its first line
VerifyStarts_NoGuard(bx) == FullLength(getCode(bx))

\* the synchronous part of verify(), lines 255-267, on box values bx:
\* whether it passes both early returns
VerifyStarts(bx) == ~isVerifying /\ FullLength(getCode(bx))

\* the invocation verify() suspends at its first await
NewCall(bx) ==
  [id |-> nAttempts + 1, pc |-> "delay", code |-> getCode(bx), timer |-> DramaticDelay,
   hash |-> <<>>, key |-> NoKey, trace |-> <<>>]

\* checkAutoVerify(): verify() only for a candidate of full length
AutoVerifyStarts(bx) == FullLength(getCode(bx)) /\ VerifyStarts(bx)

\* the effect of a call of checkAutoVerify() on box values bx, followed by
\* clearError() when `clears`
AutoVerify(bx, clears) ==
  IF AutoVerifyStarts(bx)
  THEN /\ nAttempts < MaxAttempts
       /\ isVerifying' = TRUE
       /\ statusText' = IF clears THEN "" ELSE "DECRYPTING..."
       /\ calls' = calls \cup {NewCall(bx)}
       /\ nAttempts' = nAttempts + 1
  ELSE /\ statusText' = IF clears THEN "" ELSE statusText
       /\ UNCHANGED <<isVerifying, calls, nAttempts>>

(* ------------------------------ events -------------------------------- *)

\* 'input' event on box i (1-based) after the browser set its value to v
Input(i, v) ==
  /\ boxes' = [boxes EXCEPT ![i] = v]
  /\ IF v # "" /\ i = Len(boxes)
     THEN AutoVerify(boxes', TRUE)
     ELSE /\ statusText' = ""
          /\ UNCHANGED <<isVerifying, calls, nAttempts>>
  /\ UNCHANGED <<buildEnv, embedded, revealPanel, finalMessage, shakeTimers, last>>

\* 'keydown' of Backspace on the empty box i, i not the first
Keydown(i) ==
  /\ boxes[i] = ""
  /\ i > 1
  /\ boxes' = [boxes EXCEPT ![i - 1] = ""]
  /\ statusText' = ""
  /\ UNCHANGED <<buildEnv, embedded, revealPanel, finalMessage, isVerifying, calls,
                 shakeTimers, nAttempts, last>>

\* 'paste' event on box i with clipboard text `text`
Paste(i, text) ==
  LET pasted == Trim(text)
  IN /\ boxes' = [k \in 1..Len(boxes) |->
                    IF k >= i /\ k - i < Len(pasted) THEN pasted[k - i + 1] ELSE boxes[k]]
     /\ AutoVerify(boxes', FALSE)
     /\ UNCHANGED <<buildEnv, embedded, revealPanel, finalMessage, shakeTimers, last>>

(* ------------------------------ timers -------------------------------- *)

\* remaining times of the pending timers
Pending ==
  {c.timer : c \in {d \in calls : d.pc = "delay"}}
    \cup {shakeTimers[k].rem : k \in 1..Len(shakeTimers)}

\* time passes until the next timer is due
AdvanceTime ==
  /\ Pending # {}
  /\ 0 \notin Pending
  /\ LET d == CHOOSE m \in Pending : \A n \in Pending : m <= n
     IN /\ calls' = {IF c.pc = "delay" THEN [c EXCEPT !.timer = c.timer - d] ELSE c :
                       c \in calls}
        /\ shakeTimers' = [k \in 1..Len(shakeTimers) |->
                             [shakeTimers[k] EXCEPT !.rem = shakeTimers[k].rem - d]]
  /\ UNCHANGED <<buildEnv, embedded, dom, isVerifying, nAttempts, last>>

\* the callback of triggerShake's setTimeout: every box emptied
ShakeElapsed(k) ==
  /\ shakeTimers[k].rem = 0
  /\ boxes' = [i \in 1..Len(boxes) |-> ""]
  /\ shakeTimers' = [j \in 1..(Len(shakeTimers) - 1) |->
                       IF j < k THEN shakeTimers[j] ELSE shakeTimers[j + 1]]
  /\ UNCHANGED <<buildEnv, embedded, statusText, revealPanel, finalMessage,
                 isVerifying, calls, nAttempts, last>>

(* ------------------------ verify(), resumed --------------------------- *)

Finished(c, result) == [id |-> c.id, code |-> c.code, result |-> result, trace |-> c.trace]

\* a rejection that also leaves the candidate in the reveal panel's content
Reject_Leaky(c, result, msg) ==
  /\ statusText' = msg
  /\ shakeTimers' = Append(shakeTimers, [owner |-> c.id, rem |-> ShakeDelay])
  /\ isVerifying' = FALSE
  /\ calls' = calls \ {c}
  /\ last' = Finished(c, result)
  /\ finalMessage' = c.code
  /\ UNCHANGED <<boxes, revealPanel>>

\* showError(msg); triggerShake(); isVerifying = false
Reject(c, result, msg) ==
  /\ statusText' = msg
  /\ shakeTimers' = Append(shakeTimers, [owner |-> c.id, rem |-> ShakeDelay])
  /\ isVerifying' = FALSE
  /\ calls' = calls \ {c}
  /\ last' = Finished(c, result)
  /\ UNCHANGED <<boxes, revealPanel, finalMessage>>

\* showSuccess followed by isVerifying = false, as on the rejecting branches
showSuccess_Release(c, message) ==
  /\ revealPanel' = "visible"
  /\ finalMessage' = message
  /\ isVerifying' = FALSE
  /\ calls' = calls \ {c}
  /\ last' = Finished(c, "Accepted")
  /\ UNCHANGED <<boxes, statusText, shakeTimers>>

\* showSuccess(message): the guard is left set
showSuccess(c, message) ==
  /\ revealPanel' = "visible"
  /\ finalMessage' = message
  /\ calls' = calls \ {c}
  /\ last' = Finished(c, "Accepted")
  /\ UNCHANGED <<boxes, statusText, isVerifying, shakeTimers>>

\* if (message) showSuccess(message) else { showError; triggerShake; release }
Conclude(c, message) ==
  IF Truthy(message)
  THEN showSuccess(c, message)
  ELSE Reject(c, "RejectedDecrypt", "DECRYPTION FAILURE")

\* the 800 ms timer fires: sha256(code) calls crypto.subtle.digest
DelayElapsed(c) ==
  /\ c.pc = "delay"
  /\ c.timer = 0
  /\ calls' = (calls \ {c}) \cup {[c EXCEPT !.pc = "digest", !.trace = Append(@, "digest")]}
  /\ UNCHANGED <<buildEnv, embedded, dom, isVerifying, shakeTimers, nAttempts, last>>

\* the step taken once the digest is known: compare, then reject or start
\* decryptMessage, whose base64ToBytes calls may throw into its catch
AfterHash(c, hash) ==
  IF HashMatches(hash)
  THEN IF ConstantsDecode
       THEN /\ calls' = (calls \ {c}) \cup
                          {[c EXCEPT !.pc = "importKey", !.hash = hash,
                                     !.trace = Append(@, "importKey")]}
            /\ UNCHANGED <<dom, isVerifying, shakeTimers, last>>
       ELSE Conclude(c, Null)
  ELSE Reject(c, "RejectedHash", "INVALID SIGNAL")

\* sha256(getCode()) in place of sha256(code): the boxes are read again
DigestResolved_RereadsBoxes(c) ==
  /\ c.pc = "digest"
  /\ AfterHash(c, sha256(getCode(boxes)))
  /\ UNCHANGED <<buildEnv, embedded, nAttempts>>

\* crypto.subtle.digest resolves
DigestResolved(c) ==
  /\ c.pc = "digest"
  /\ AfterHash(c, sha256(c.code))
  /\ UNCHANGED <<buildEnv, embedded, nAttempts>>

\* crypto.subtle.importKey resolves: deriveKey calls crypto.subtle.deriveKey
ImportKeyResolved(c) ==
  /\ c.pc = "importKey"
  /\ calls' = (calls \ {c}) \cup
                {[c EXCEPT !.pc = "deriveKey", !.trace = Append(@, "deriveKey")]}
  /\ UNCHANGED <<buildEnv, embedded, dom, isVerifying, shakeTimers, nAttempts, last>>

\* the salt drawn anew for every derivation
DeriveKeyResolved_FreshSalt(c) ==
  /\ c.pc = "deriveKey"
  /\ SALT' = Base64Encode(randomBytes(c.id, 0, SaltBytes))
  /\ calls' = (calls \ {c}) \cup
                {[c EXCEPT !.pc = "decrypt", !.key = deriveKey(c.code, base64ToBytes(SALT')),
                           !.trace = Append(@, "decrypt")]}
  /\ UNCHANGED <<buildEnv, CODE_HASH, CODE_LENGTH, IV, ENCRYPTED_MESSAGE, dom,
                 isVerifying, shakeTimers, nAttempts, last>>

\* crypto.subtle.deriveKey resolves: decryptMessage calls crypto.subtle.decrypt
DeriveKeyResolved(c) ==
  /\ c.pc = "deriveKey"
  /\ calls' = (calls \ {c}) \cup
                {[c EXCEPT !.pc = "decrypt", !.key = deriveKey(c.code, base64ToBytes(SALT)),
                           !.trace = Append(@, "decrypt")]}
  /\ UNCHANGED <<buildEnv, embedded, dom, isVerifying, shakeTimers, nAttempts, last>>

\* the message decryptMessage returns once crypto.subtle.decrypt has settled
\* (iv, ciphertext and decrypted are bound through sets, to be evaluated once)
decryptMessage(key) ==
  LET outcomes ==
        {SubtleDecrypt(key, iv, ciphertext) :
           iv \in {base64ToBytes(IV)}, ciphertext \in {base64ToBytes(ENCRYPTED_MESSAGE)}}
      returned ==
        {IF decrypted = OperationError THEN Null ELSE TextDecoderDecode(decrypted) :
           decrypted \in outcomes}
  IN CHOOSE message \in returned : TRUE

\* crypto.subtle.decrypt resolves or rejects
DecryptSettled(c) ==
  /\ c.pc = "decrypt"
  /\ \E message \in {decryptMessage(c.key)} : Conclude(c, message)
  /\ UNCHANGED <<buildEnv, embedded, nAttempts>>

(* --------------------------- specification ---------------------------- *)

\* Events reach the boxes in every state, also after showSuccess has hidden their
\* container: nothing below relies on the browser withholding them.
UserEvent ==
  \/ \E i \in 1..Len(boxes), v \in CodeAlphabet \cup {""} : Input(i, v)
  \/ \E i \in 1..Len(boxes) : Keydown(i)
  \/ \E i \in 1..Len(boxes), text \in Clipboard : Paste(i, text)

TimerEvent ==
  \/ \E c \in calls : DelayElapsed(c)
  \/ \E k \in 1..Len(shakeTimers) : ShakeElapsed(k)

CryptoEvent ==
  \/ \E c \in calls : DigestResolved(c)
  \/ \E c \in calls : ImportKeyResolved(c)
  \/ \E c \in calls : DeriveKeyResolved(c)
  \/ \E c \in calls : DecryptSettled(c)

Next == UserEvent \/ AdvanceTime \/ TimerEvent \/ CryptoEvent

Spec == Init /\ [][Next]_vars

\* timers fire, time passes and the Web Crypto promises settle; no event of the
\* user is ever required.  Liveness is explored from the untouched pages of the
\* one-character messages.
FairInit == Init /\ tamper = "none" /\ Len(SECRET_MESSAGE) = 1

FairSpec ==
  /\ FairInit
  /\ [][Next]_vars
  /\ WF_vars(AdvanceTime)
  /\ WF_vars(TimerEvent)
  /\ WF_vars(CryptoEvent)

\* the state of the verification machine of the design, read off the page
State ==
  IF revealPanel = "visible" THEN "Accepted"
  ELSE IF isVerifying THEN "Verifying"
  ELSE IF shakeTimers # <<>> THEN last.result
  ELSE "Idle"

AllEmpty == \A i \in 1..Len(boxes) : boxes[i] = ""

\* the events whose handler calls checkAutoVerify(): a paste into any box, a
\* character typed into the last box
Submits ==
  \/ \E i \in 1..Len(boxes), text \in Clipboard : Paste(i, text)
  \/ \E v \in CodeAlphabet : Input(Len(boxes), v)

(* ------------------- Web Crypto calls that throw ---------------------- *)

\* crypto.subtle.digest throws or rejects (crypto.subtle is undefined outside a
\* secure context): sha256 rejects, and with it verify() at line 269, which has
\* no handler; none of its remaining statements runs
DigestRejected(c) ==
  /\ c.pc = "digest"
  /\ calls' = calls \ {c}
  /\ UNCHANGED <<buildEnv, embedded, dom, isVerifying, shakeTimers, nAttempts, last>>

\* crypto.subtle.importKey throws or rejects: caught in decryptMessage
ImportKeyRejected(c) ==
  /\ c.pc = "importKey"
  /\ Conclude(c, Null)
  /\ UNCHANGED <<buildEnv, embedded, nAttempts>>

\* crypto.subtle.deriveKey throws or rejects: caught in decryptMessage
DeriveKeyRejected(c) ==
  /\ c.pc = "deriveKey"
  /\ Conclude(c, Null)
  /\ UNCHANGED <<buildEnv, embedded, nAttempts>>

CryptoFault ==
  \/ \E c \in calls : DigestRejected(c)
  \/ \E c \in calls : ImportKeyRejected(c)
  \/ \E c \in calls : DeriveKeyRejected(c)

FaultNext == Next \/ CryptoFault

\* every Web Crypto call settles, by resolving or by rejecting
FaultSpec ==
  /\ FairInit
  /\ [][FaultNext]_vars
  /\ WF_vars(AdvanceTime)
  /\ WF_vars(TimerEvent)
  /\ WF_vars(CryptoEvent \/ CryptoFault)

\* what verify() makes of a candidate, given the constants of the page
Outcome(code) ==
  IF sha256(code) # CODE_HASH THEN "RejectedHash"
  ELSE IF ~ConstantsDecode THEN "RejectedDecrypt"
  ELSE IF Truthy(decryptMessage(deriveKey(code, base64ToBytes(SALT)))) THEN "Accepted"
  ELSE "RejectedDecrypt"

(* ---------------------- the build script, run ------------------------- *)

\* everything of the page: the build script touches none of it
page == <<tamper, embedded, dom, isVerifying, calls, shakeTimers, nAttempts, last>>

\* values of the two variables in the environment of the build
EnvCodes == {Undefined, <<>>} \cup Codes
EnvMessages == {Undefined, <<>>} \cup Messages
\* what follows the '=' of a line of .env: nothing but a blank, or a value
FileCodes == {Undefined, <<Blank>>, <<"A", Blank>>}
FileMessages == {Undefined, <<Blank>>, <<"T">>}

\* dist/ as an earlier build of other secrets left it
StaleDist == DistOf(Prepare(<<"A">>, <<"T">>, 0))

\* the build script is launched; index.html still holds its placeholders
BuildInit ==
  \E code \in EnvCodes, message \in EnvMessages, fileCode \in FileCodes,
     fileMessage \in FileMessages, stale \in BOOLEAN :
    /\ processEnv = [SECRET_CODE |-> code, SECRET_MESSAGE |-> message]
    /\ dotenv = [SECRET_CODE |-> fileCode, SECRET_MESSAGE |-> fileMessage]
    /\ build = BuildStart
    /\ dist = IF stale THEN StaleDist ELSE NoDist
    /\ entropy = IF stale THEN EntropyAfter(0) ELSE 0
    /\ runs = <<>>
    /\ SECRET_CODE = Undefined
    /\ SECRET_MESSAGE = Undefined
    /\ tamper = "none"
    /\ CODE_HASH = <<>>
    /\ CODE_LENGTH = 0
    /\ SALT = <<>>
    /\ IV = <<>>
    /\ ENCRYPTED_MESSAGE = <<>>
    /\ boxes = createBoxes(0)
    /\ isVerifying = FALSE
    /\ statusText = ""
    /\ revealPanel = "hidden"
    /\ finalMessage = <<>>
    /\ calls = {}
    /\ shakeTimers = <<>>
    /\ nAttempts = 0
    /\ last = [id |-> 0, code |-> <<>>, result |-> "none", trace |-> <<>>]

\* process.env[key] after the .env loop: the trimmed value of the file where the
\* environment has none (or an empty one)
LoadedEnv(key) ==
  IF dotenv[key] # Undefined /\ processEnv[key] \in {Undefined, <<>>}
  THEN Trim(dotenv[key])
  ELSE processEnv[key]

\* lines 14-31: .env is read, then the two constants
LoadEnv ==
  /\ build.pc = "loadEnv"
  /\ SECRET_CODE' = LoadedEnv("SECRET_CODE")
  /\ SECRET_MESSAGE' = LoadedEnv("SECRET_MESSAGE")
  /\ build' = [build EXCEPT !.pc = "validate"]
  /\ UNCHANGED <<processEnv, dotenv, dist, entropy, runs, page>>

\* lines 33-36: process.exit(1) unless both are set
Validate ==
  /\ build.pc = "validate"
  /\ build' = [build EXCEPT !.pc = IF BuildRejects(SECRET_CODE, SECRET_MESSAGE)
                                   THEN "exit" ELSE "hash"]
  /\ UNCHANGED <<SECRET_CODE, SECRET_MESSAGE, processEnv, dotenv, dist, entropy, runs,
                 page>>

\* line 41
HashCode ==
  /\ build.pc = "hash"
  /\ build' = [build EXCEPT !.pc = "randomBytes", !.codeHash = codeHash(SECRET_CODE)]
  /\ UNCHANGED <<SECRET_CODE, SECRET_MESSAGE, processEnv, dotenv, dist, entropy, runs,
                 page>>

\* lines 45-46: salt and iv from the next entropy stream
RandomBytes ==
  /\ build.pc = "randomBytes"
  /\ build' = [build EXCEPT !.pc = "encrypt",
                            !.salt = randomBytes(entropy, 0, SaltBytes),
                            !.iv = randomBytes(entropy, SaltBytes, IvBytes)]
  /\ entropy' = EntropyAfter(entropy)
  /\ UNCHANGED <<SECRET_CODE, SECRET_MESSAGE, processEnv, dotenv, dist, runs, page>>

\* lines 49-57: key, ciphertext, tag
Encrypt ==
  /\ build.pc = "encrypt"
  /\ LET key == Pbkdf2(Utf8Encode(SECRET_CODE), build.salt, BuildIterations, "sha256",
                       BuildKeyBytes * 8)
         encrypted == AesGcmEncrypt(key, build.iv, Utf8Encode(SECRET_MESSAGE))
         authTag == AesGcmTag(key, build.iv, encrypted)
     IN build' = [build EXCEPT !.pc = "mkdir", !.encryptedWithTag = encrypted \o authTag]
  /\ UNCHANGED <<SECRET_CODE, SECRET_MESSAGE, processEnv, dotenv, dist, entropy, runs,
                 page>>

\* lines 66-67: dist/ is created unless it exists
MakeDist ==
  /\ build.pc = "mkdir"
  /\ build' = [build EXCEPT !.pc = "write"]
  /\ dist' = [dist EXCEPT !.exists = TRUE]
  /\ UNCHANGED <<SECRET_CODE, SECRET_MESSAGE, processEnv, dotenv, entropy, runs, page>>

\* lines 59-61, 72-76: what replaces the five placeholders
Injected ==
  [CODE_HASH |-> build.codeHash,
   ENCRYPTED_MESSAGE |-> Base64Encode(build.encryptedWithTag),
   CODE_LENGTH |-> Len(SECRET_CODE),
   IV |-> Base64Encode(build.iv),
   SALT |-> Base64Encode(build.salt)]

\* lines 70-83: index.html with the constants injected is written to dist/
WriteIndex ==
  /\ build.pc = "write"
  /\ build' = [build EXCEPT !.pc = "copy"]
  /\ dist' = [dist EXCEPT !.index = <<Injected>>]
  /\ runs' = Append(runs, Injected)
  /\ UNCHANGED <<SECRET_CODE, SECRET_MESSAGE, processEnv, dotenv, entropy, page>>

\* lines 87-104: style.css, script.js and assets/ are copied
CopyAssets ==
  /\ build.pc = "copy"
  /\ build' = [build EXCEPT !.pc = "done"]
  /\ dist' = [dist EXCEPT !.copied = TRUE]
  /\ UNCHANGED <<SECRET_CODE, SECRET_MESSAGE, processEnv, dotenv, entropy, runs, page>>

\* the script is launched again, in the same environment
Rerun ==
  /\ build.pc \in {"done", "exit"}
  /\ build.run < MaxRuns
  /\ build' = [BuildStart EXCEPT !.run = build.run + 1]
  /\ SECRET_CODE' = Undefined
  /\ SECRET_MESSAGE' = Undefined
  /\ UNCHANGED <<processEnv, dotenv, dist, entropy, runs, page>>

BuildNext ==
  \/ LoadEnv
  \/ Validate
  \/ HashCode
  \/ RandomBytes
  \/ Encrypt
  \/ MakeDist
  \/ WriteIndex
  \/ CopyAssets
  \/ Rerun

BuildSpec == BuildInit /\ [][BuildNext]_vars

(* ------------------------------ claims --------------------------------- *)

\* C1: at most one invocation of verify() is in flight, and an input or paste
\* event arriving while the guard is set changes neither the guard, nor the
\* invocation in flight (its captured code, its position, its timer), nor the
\* number of attempts, nor anything the attempt's result is written to.
C1_SingleAttemptInFlight ==
  /\ [](Cardinality(calls) <= 1 /\ (calls # {} => isVerifying))
  /\ [][(isVerifying /\ UserEvent) =>
          UNCHANGED <<isVerifying, calls, nAttempts, shakeTimers, last,
                      revealPanel, finalMessage>>]_vars

\* C1 witness: a one-box page whose box was rewritten to another character while
\* the attempt is in flight: the handler that wrote it called verify() again.
C1_Witness ==
  \E c \in calls :
    /\ isVerifying
    /\ CODE_LENGTH = 1
    /\ boxes[1] # ""
    /\ boxes[1] # c.code[1]

\* C2: an invocation is past the hash check (importing the key, deriving it or
\* decrypting) only with a computed hash equal to CODE_HASH and after its digest;
\* an attempt whose candidate hashes to something else ends in RejectedHash
\* having started nothing but the digest.
C2_HashBeforeKey ==
  /\ \A c \in calls :
       /\ c.pc \in {"importKey", "deriveKey", "decrypt"} =>
            c.hash = CODE_HASH /\ c.hash = sha256(c.code) /\ c.trace[1] = "digest"
       /\ c.pc \in {"delay", "digest"} => c.key = NoKey /\ Len(c.trace) <= 1
  /\ last.id > 0 /\ sha256(last.code) # CODE_HASH =>
       last.result = "RejectedHash" /\ last.trace = <<"digest">>

\* C2 witness: an attempt ended in RejectedHash while a later one is decrypting.
C2_Witness ==
  /\ last.result = "RejectedHash"
  /\ \E c \in calls : c.pc = "decrypt"

\* C3: the page is revealed only to the secret code, and an attempt with any
\* other candidate (of the same length, a different case included) ends in
\* RejectedHash.
C3_WrongCodeRejected ==
  /\ revealPanel = "visible" => last.result = "Accepted" /\ last.code = SECRET_CODE
  /\ last.result = "Accepted" => last.code = SECRET_CODE
  /\ last.id > 0 /\ last.code # SECRET_CODE =>
       Len(last.code) = Len(SECRET_CODE) /\ last.result = "RejectedHash"

\* C3 witness: a candidate differing from the secret code only in case was
\* rejected on its hash.
C3_Witness ==
  /\ last.id > 0
  /\ last.code # SECRET_CODE
  /\ ToUpperCase(last.code) = ToUpperCase(SECRET_CODE)
  /\ last.result = "RejectedHash"

\* C4 (as claimed): on an untouched page, an attempt with the secret code ends in
\* Accepted and reveals exactly SECRET_MESSAGE.
C4_RoundTrip ==
  last.id > 0 /\ last.code = SECRET_CODE /\ tamper = "none" =>
    last.result = "Accepted" /\ finalMessage = SECRET_MESSAGE

C6_AcceptedTerminal ==
  [][revealPanel = "visible" =>
       /\ State' = "Accepted"
       /\ calls = {}
       /\ UNCHANGED <<revealPanel, finalMessage, isVerifying, calls, nAttempts,
                      shakeTimers, last>>]_vars

\* C6 witness: the panel is shown and the boxes hold a full candidate other than
\* the accepted one.
C6_Witness ==
  /\ State = "Accepted"
  /\ FullLength(getCode(boxes))
  /\ getCode(boxes) # last.code

\* C7 (as claimed): while the cool-down of a rejection is pending, no later
\* attempt has started and the guard is still held.
C7_CoolDownBlocksAttempts ==
  \A k \in 1..Len(shakeTimers) : shakeTimers[k].owner = nAttempts /\ calls = {}

\* C8 (as claimed): a rejection is eventually followed by Idle with the guard
\* released and every box empty.
C8_RejectionLeadsToIdle ==
  (shakeTimers # <<>>) ~> (State = "Idle" /\ ~isVerifying /\ AllEmpty)

\* C9 (as claimed): the cool-down callback of an attempt never changes the boxes
\* once a later attempt has started.
C9_NoStaleMutation ==
  [][~ \E k \in 1..Len(shakeTimers) :
         /\ shakeTimers[k].owner < nAttempts
         /\ ShakeElapsed(k)
         /\ boxes' # boxes]_vars

\* C10: an input or paste event in Idle that leaves a candidate of another
\* length than CODE_LENGTH starts nothing: the machine stays Idle, the guard
\* stays clear, no invocation exists and the status does not say DECRYPTING.
C10_LengthPrecondition ==
  [][(State = "Idle" /\ UserEvent /\ Len(getCode(boxes')) # CODE_LENGTH) =>
       /\ State' = "Idle"
       /\ statusText' # "DECRYPTING..."
       /\ UNCHANGED <<isVerifying, calls, nAttempts>>]_vars

\* C10 witness: before any attempt, the last box is filled and another is not:
\* the handler that filled it asked for verification of a short candidate.
C10_Witness ==
  /\ nAttempts = 0
  /\ State = "Idle"
  /\ boxes[Len(boxes)] # ""
  /\ \E i \in 1..Len(boxes) : boxes[i] = ""

\* C12: while the script has not passed its check of the two variables, and
\* after it exited on it, the run has computed no hash, salt, IV or ciphertext,
\* and no step up to there creates dist/, writes into it or draws random bytes;
\* a run whose SECRET_CODE or SECRET_MESSAGE is missing or empty ends there and
\* gets no further.
C12_AbortsBeforeProducing ==
  /\ [](build.pc \in {"loadEnv", "validate", "exit"} =>
          /\ build.codeHash = NotYet
          /\ build.salt = NotYet
          /\ build.iv = NotYet
          /\ build.encryptedWithTag = NotYet)
  /\ [](build.pc \in {"hash", "randomBytes", "encrypt", "mkdir", "write", "copy", "done"} =>
          /\ SECRET_CODE \notin {Undefined, <<>>}
          /\ SECRET_MESSAGE \notin {Undefined, <<>>})
  /\ [][build'.pc \in {"loadEnv", "validate", "exit"} =>
          UNCHANGED <<dist, entropy, runs>>]_vars
  /\ [][(build.pc = "validate" /\ build'.pc # "validate"
           /\ (SECRET_CODE \in {Undefined, <<>>} \/ SECRET_MESSAGE \in {Undefined, <<>>}))
          => build'.pc = "exit"]_vars

\* C12 witness: a run with a code but with no message (the .env file gives a
\* blank one) has exited, and dist/ is still what an earlier build left.
C12_Witness ==
  /\ build.pc = "exit"
  /\ SECRET_CODE \in Codes
  /\ SECRET_MESSAGE = <<>>
  /\ dotenv.SECRET_MESSAGE = <<Blank>>
  /\ dist = StaleDist

\* C13: the runs of the build in one environment all inject the same CODE_HASH
\* and CODE_LENGTH, and any two of them differ in SALT, in IV and in
\* ENCRYPTED_MESSAGE; each injects what Prepare computes for its entropy.
C13_RunsDifferOnlyInRandomness ==
  /\ \A i \in 1..Len(runs) : \E seed \in 0..MaxRuns :
       runs[i] = Prepare(LoadedEnv("SECRET_CODE"), LoadedEnv("SECRET_MESSAGE"), seed)
  /\ \A i \in 1..Len(runs) : \A j \in 1..Len(runs) :
       i < j =>
         /\ runs[i].CODE_HASH = runs[j].CODE_HASH
         /\ runs[i].CODE_LENGTH = runs[j].CODE_LENGTH
         /\ runs[i].SALT # runs[j].SALT
         /\ runs[i].IV # runs[j].IV
         /\ runs[i].ENCRYPTED_MESSAGE # runs[j].ENCRYPTED_MESSAGE

\* C13 witness: two runs have written dist/index.html.
C13_Witness ==
  /\ Len(runs) = 2
  /\ build.pc = "done"
  /\ dist.index = <<runs[2]>>

\* C11 (as claimed): in Idle, after rejections, a submission of a full-length
\* candidate always starts an attempt for it, and an attempt with the secret
\* code started after a rejection ends in Accepted.
C11_NoLockout ==
  /\ [][(State = "Idle" /\ last.id > 0 /\ Submits /\ FullLength(getCode(boxes'))) =>
          /\ isVerifying'
          /\ nAttempts' = nAttempts + 1
          /\ \E c \in calls' : c.id = nAttempts' /\ c.code = getCode(boxes')]_vars
  /\ (last.id > 0 /\ \E c \in calls : c.code = SECRET_CODE) ~> (State = "Accepted")

\* C14: the status line only ever holds one of four fixed texts; a step that
\* ends an attempt in RejectedHash or RejectedDecrypt writes the text of that
\* result there and changes nothing else of the page; and outside Accepted the
\* reveal panel is hidden and holds no message.
C14_RejectionExposesNothing ==
  /\ [](statusText \in {"", "DECRYPTING...", "INVALID SIGNAL", "DECRYPTION FAILURE"})
  /\ [](State # "Accepted" => revealPanel = "hidden" /\ finalMessage = <<>>)
  /\ [][(last' # last /\ last'.result \in {"RejectedHash", "RejectedDecrypt"}) =>
          /\ statusText' = IF last'.result = "RejectedHash"
                           THEN "INVALID SIGNAL" ELSE "DECRYPTION FAILURE"
          /\ UNCHANGED <<boxes, revealPanel, finalMessage>>]_vars

\* C14 witness: the secret code was rejected after its key was derived and the
\* decryption attempted, and the page shows the reason of that rejection.
C14_Witness ==
  /\ State = "RejectedDecrypt"
  /\ last.code = SECRET_CODE
  /\ last.trace = <<"digest", "importKey", "deriveKey", "decrypt">>
  /\ statusText = "DECRYPTION FAILURE"
  /\ getCode(boxes) = SECRET_CODE

\* C15: no step of the page changes CODE_HASH, CODE_LENGTH, SALT, IV or
\* ENCRYPTED_MESSAGE: they are what the page was loaded with, and every key
\* an attempt derives is derived with the bytes of that one SALT.
C15_ConstantsReadOnly ==
  /\ [][UNCHANGED embedded]_vars
  /\ [](\E seed \in 0..MaxSeed :
          LET art == Tamper(Prepare(SECRET_CODE, SECRET_MESSAGE, seed), tamper)
          IN embedded = <<art.CODE_HASH, art.CODE_LENGTH, art.SALT, art.IV,
                          art.ENCRYPTED_MESSAGE>>)
  /\ [](\A c \in calls : c.key # NoKey => c.key.salt = base64ToBytes(SALT))

\* C15 witness: after a rejected attempt and its cool-down, a second attempt has
\* derived its key.
C15_Witness ==
  /\ last.result \in {"RejectedHash", "RejectedDecrypt"}
  /\ shakeTimers = <<>>
  /\ \E c \in calls : c.id = 2 /\ c.pc = "decrypt" /\ c.key # NoKey

\* C16: an invocation holds a key only while it decrypts, the key is the one
\* derived from its own captured candidate, it called deriveKey at most once,
\* and whenever no attempt is in flight (Idle, or the cool-down of a rejection)
\* no invocation, hence no key, is left; the record of the finished attempt
\* shows at most one derivation.
C16_KeyLivesInOneAttempt ==
  /\ \A c \in calls :
       /\ c.key # NoKey <=> c.pc = "decrypt"
       /\ c.key # NoKey =>
            /\ c.key.password = Utf8Encode(c.code)
            /\ c.key.salt = base64ToBytes(SALT)
       /\ Cardinality({i \in 1..Len(c.trace) : c.trace[i] = "deriveKey"}) <= 1
  /\ ~isVerifying => calls = {}
  /\ State = "Idle" => calls = {}
  /\ Cardinality({i \in 1..Len(last.trace) : last.trace[i] = "deriveKey"}) <= 1

\* C16 witness: an attempt that had derived a key was rejected, the machine went
\* back to Idle, and a later attempt has derived its key.
C16_Witness ==
  /\ last.result = "RejectedDecrypt"
  /\ \E i \in 1..Len(last.trace) : last.trace[i] = "deriveKey"
  /\ shakeTimers = <<>>
  /\ \E c \in calls : c.id > last.id /\ c.pc = "decrypt" /\ c.key # NoKey

\* C17 (as claimed): with timers firing and every Web Crypto call settling, by
\* resolving or by rejecting, Verifying is always left for Accepted,
\* RejectedHash or RejectedDecrypt.
C17_AttemptsTerminate ==
  (State = "Verifying") ~> (State \in {"Accepted", "RejectedHash", "RejectedDecrypt"})

\* C18: an invocation keeps the candidate it captured whatever happens to the
\* boxes; the hash it compares is the hash of that candidate, its key is derived
\* from that candidate, and the result of a finished attempt is the one the
\* constants of the page give for its captured candidate.
C18_CapturedCandidateDecides ==
  /\ [][\A c \in calls : \A d \in calls' : c.id = d.id => d.code = c.code]_vars
  /\ [][(isVerifying /\ UserEvent) => calls' = calls]_vars
  /\ [](\A c \in calls :
          /\ c.hash # <<>> => c.hash = sha256(c.code)
          /\ c.key # NoKey => c.key.password = Utf8Encode(c.code))
  /\ [](last.id > 0 => last.result = Outcome(last.code))

\* C18 witness: an attempt is past its hash check while the boxes hold another
\* full candidate, whose hash does not match.
C18_Witness ==
  \E c \in calls :
    /\ c.pc \in {"importKey", "deriveKey", "decrypt"}
    /\ FullLength(getCode(boxes))
    /\ getCode(boxes) # c.code
    /\ sha256(getCode(boxes)) # CODE_HASH

\* C19 (as claimed): an event in Idle that leaves every box holding a character
\* starts an attempt for the candidate in the boxes.
C19_CompleteCandidateSubmitted ==
  [][(State = "Idle" /\ UserEvent /\ \A i \in 1..Len(boxes') : boxes'[i] # "") =>
       /\ isVerifying'
       /\ \E c \in calls' : c.code = getCode(boxes')]_vars

=============================================================================
